---- MODULE Spec2Model ----
(***************************************************************************)
(* A model of buildkite-demo-agent: the command line entry point main()    *)
(* of src/src/buildkite_demo_agent/__init__.py and the OSVAgent class of   *)
(* src/src/buildkite_demo_agent/osv_agent.py.                              *)
(*                                                                         *)
(* One behaviour is one run of the program.  The parsed command line, the  *)
(* environment and the file system are chosen in Init; the LLM agent and   *)
(* the MCP server are the environment: every await on them either raises   *)
(* or yields one of a few structured answers.                              *)
(*                                                                         *)
(* Python strings that the code takes apart (the --packages argument, the  *)
(* server URL) are sequences of one-character strings.  An optional value  *)
(* (argparse's None, JSON null) is a record [given, val].  The flag        *)
(* --output-file is left out: it only redirects the text that is printed.  *)
(***************************************************************************)
EXTENDS Integers, Sequences, FiniteSets, TLC

VARIABLES
    args,          \* argparse namespace of main()
    env,           \* os.environ: ANTHROPIC_API_KEY
    pc,            \* position of main(): start, construct, dispatch, scan, format, done, exit
    exitCode,      \* process exit status, NoExit while running
    stderr,        \* kinds of the messages printed to sys.stderr, in order
    stdout,        \* the printed output (output_str), NoOutput before it is printed
    agent,         \* the OSVAgent: [constructed, transport, url]
    branch,        \* the branch of main()'s if/elif chain that was taken
    op,            \* the running OSVAgent operation: [kind, phase, packages, i, results, pending]
    session,       \* TRUE while the async with run_mcp_servers() block is entered
    queries,       \* the queries handed to agent.run, in order
    calls,         \* one entry per scan_package / get_vulnerability_details call
    nOpen,         \* attempts to enter run_mcp_servers()
    nOpened,       \* attempts that succeeded
    nClose         \* exits of run_mcp_servers()

vars == <<args, env, pc, exitCode, stderr, stdout, agent, branch, op, session,
          queries, calls, nOpen, nOpened, nClose>>

---------------------------------------------------------------------------
(* Bounds of the model *)

\* the longest batch (packages in --packages or in the packages file)
MaxPkgs == 2

\* the longest server URL, in characters
MaxUrlLen == 6

---------------------------------------------------------------------------
(* Python values *)

None == [given |-> FALSE, val |-> <<>>]

Str(s) == [given |-> TRUE, val |-> s]

\* bool(x) of an Optional[str]: None and "" are falsy
Truthy(o) == o.given /\ o.val # <<>>

\* isinstance(x, str), as pydantic checks a field declared str
IsStr(o) == o.given

\* str(x) inside an f-string
PyStr(o) == IF o.given THEN o.val ELSE <<"N", "o", "n", "e">>

\* a and b and c / a or b over optional strings: the first falsy / truthy operand
PyOr(a, b) == IF Truthy(a) THEN a ELSE b

EndsWith(s, suffix) ==
    /\ Len(s) >= Len(suffix)
    /\ SubSeq(s, Len(s) - Len(suffix) + 1, Len(s)) = suffix

RECURSIVE RStrip(_, _)
RStrip(s, ch) ==
    IF s # <<>> /\ s[Len(s)] = ch THEN RStrip(SubSeq(s, 1, Len(s) - 1), ch) ELSE s

RECURSIVE LStrip(_, _)
LStrip(s, ch) ==
    IF s # <<>> /\ s[1] = ch THEN LStrip(Tail(s), ch) ELSE s

\* str.strip(): whitespace off both ends
Strip(s) == LStrip(RStrip(s, " "), " ")

\* str.split(sep) for a one-character separator: always at least one part
RECURSIVE SplitFrom(_, _, _, _)
SplitFrom(s, sep, i, cur) ==
    IF i > Len(s) THEN <<cur>>
    ELSE IF s[i] = sep THEN <<cur>> \o SplitFrom(s, sep, i + 1, <<>>)
    ELSE SplitFrom(s, sep, i + 1, Append(cur, s[i]))

Split(s, sep) == SplitFrom(s, sep, 1, <<>>)

RECURSIVE SumSeq(_)
SumSeq(s) == IF s = <<>> THEN 0 ELSE s[1] + SumSeq(Tail(s))

BoolInt(b) == IF b THEN 1 ELSE 0

SeqsUpTo(S, n) == UNION {[1..k -> S] : k \in 0..n}

---------------------------------------------------------------------------
(* The inputs of a run *)

\* the default of --osv-server, http://localhost:8080, stands as one host character
DefaultUrl == <<"h">>

UrlAlphabet == {"/", "s", "e", "m", "c", "p", "h"}

SeverityLevels == <<"low", "medium", "high", "critical">>

PkgNames == <<"a", "b", "c", "d">>

\* "a:e:1", "b:e:1", ...
PkgText(i) == <<PkgNames[i], ":", "e", ":", "1">>

\* "a:e:1, b:e:1, ...": n entries, a blank after each comma
RECURSIVE PkgListText(_)
PkgListText(n) ==
    IF n = 1 THEN PkgText(1) ELSE PkgListText(n - 1) \o <<",", " ">> \o PkgText(n)

\* an entry with two fields only
MalformedText == <<"a", ":", "e">>

PackagesValues ==
    {None, Str(MalformedText)} \cup {Str(PkgListText(n)) : n \in 1..MaxPkgs}

PkgDict(name, eco, ver) == [package_name |-> name, ecosystem |-> eco, version |-> ver]

GoodDict(i) == PkgDict(Str(<<PkgNames[i]>>), Str(<<"e">>), Str(<<"1">>))

\* The file system, by path.  json.load of the file gives a list of dicts:
\*   "g": one well-formed package
\*   "n": MaxPkgs packages, the first with "version": null
\*   "k": one dict without the key 'version'
\*   "x": no such file
FileSystem(path) ==
    CASE path = <<"g">> -> [ok |-> TRUE, json |-> <<GoodDict(1)>>]
      [] path = <<"n">> ->
            [ok |-> TRUE,
             json |-> [i \in 1..MaxPkgs |->
                          IF i = 1 THEN PkgDict(Str(<<"a">>), Str(<<"e">>), None)
                          ELSE GoodDict(i)]]
      [] path = <<"k">> ->
            [ok |-> TRUE,
             json |-> <<[package_name |-> Str(<<"a">>), ecosystem |-> Str(<<"e">>)]>>]
      [] OTHER -> [ok |-> FALSE, json |-> <<>>]

FileValues == {None, Str(<<"g">>), Str(<<"n">>), Str(<<"k">>), Str(<<"x">>)}

ArgsValues ==
    [package : {None, Str(<<>>), Str(<<"p">>)},
     ecosystem : {None, Str(<<"e">>)},
     version : {None, Str(<<"1">>)},
     packages : PackagesValues,
     packages_file : FileValues,
     vulnerability_id : {None, Str(<<"V">>)},
     osv_server : {DefaultUrl},
     anthropic_api_key : {None, Str(<<"k">>)},
     output_format : {"json", "text"},
     fail_on_vulnerabilities : BOOLEAN,
     severity_threshold : {SeverityLevels[i] : i \in 1..4}]

NoExit == -1
NoOutput == [format |-> "none"]
NoAgent == [constructed |-> FALSE, transport |-> "none", url |-> <<>>]
NoValue == [none |-> TRUE]
IdleOp == [kind |-> "none", phase |-> "idle", pkgs |-> <<>>, i |-> 0,
           results |-> <<>>, pending |-> NoValue]

Init ==
    /\ args \in ArgsValues
    /\ env \in {None, Str(<<"k">>)}
    /\ pc = "start"
    /\ exitCode = NoExit
    /\ stderr = <<>>
    /\ stdout = NoOutput
    /\ agent = NoAgent
    /\ branch = "none"
    /\ op = IdleOp
    /\ session = FALSE
    /\ queries = <<>>
    /\ calls = <<>>
    /\ nOpen = 0
    /\ nOpened = 0
    /\ nClose = 0

---------------------------------------------------------------------------
(* main(): argument validation *)

scan_modes(a) ==
    <<Truthy(a.package) /\ Truthy(a.ecosystem) /\ Truthy(a.version),
      Truthy(a.packages),
      Truthy(a.packages_file),
      Truthy(a.vulnerability_id)>>

\* the mutant: at least one mode instead of exactly one
ModesOkAtLeastOne(a) ==
    SumSeq([i \in 1..4 |-> BoolInt(scan_modes(a)[i])]) >= 1

\* not (sum(scan_modes) != 1)
ModesOk(a) ==
    SumSeq([i \in 1..4 |-> BoolInt(scan_modes(a)[i])]) = 1

\* print(..., file=sys.stderr); sys.exit(1)
Die(kind) ==
    /\ stderr' = Append(stderr, kind)
    /\ exitCode' = 1
    /\ pc' = "exit"

Validate ==
    /\ pc = "start"
    /\ IF ModesOk(args)
       THEN /\ pc' = "construct"
            /\ UNCHANGED <<stderr, exitCode>>
       ELSE Die("mode_error")
    /\ UNCHANGED <<args, env, stdout, agent, branch, op, session, queries, calls,
                   nOpen, nOpened, nClose>>

---------------------------------------------------------------------------
(* OSVAgent.__init__ *)

\* the transport and the endpoint URL, from the suffix of the server URL
SelectTransport(url) ==
    IF EndsWith(url, <<"/", "s", "s", "e">>)
    THEN [transport |-> "sse", url |-> url]
    ELSE IF \/ EndsWith(url, <<"/", "m", "c", "p">>)
            \/ EndsWith(url, <<"/", "m", "c", "p", "/">>)
         THEN [transport |-> "streamable_http", url |-> RStrip(url, "/") \o <<"/">>]
         ELSE [transport |-> "sse", url |-> url \o <<"/", "s", "s", "e">>]

\* config.anthropic_api_key or os.getenv('ANTHROPIC_API_KEY')
ApiKey == PyOr(args.anthropic_api_key, env)

\* agent = OSVAgent(config), inside main()'s try: a ValueError ends the run
Construct ==
    /\ pc = "construct"
    /\ IF ~Truthy(ApiKey)
       THEN /\ Die("exception")
            /\ UNCHANGED agent
       ELSE /\ agent' = [constructed |-> TRUE,
                         transport |-> SelectTransport(args.osv_server).transport,
                         url |-> SelectTransport(args.osv_server).url]
            /\ pc' = "dispatch"
            /\ UNCHANGED <<stderr, exitCode>>
    /\ UNCHANGED <<args, env, stdout, branch, op, session, queries, calls,
                   nOpen, nOpened, nClose>>

---------------------------------------------------------------------------
(* Package lists *)

\* one entry of --packages: pkg_str.strip().split(':')
EntryParts(pkg_str) == Split(Strip(pkg_str), ":")

\* parse_packages_from_args: ok is FALSE where the code prints and exits
parse_packages_from_args(packages_str) ==
    LET entries == Split(packages_str, ",")
    IN  IF \E k \in 1..Len(entries) : Len(EntryParts(entries[k])) # 3
        THEN [ok |-> FALSE, packages |-> <<>>]
        ELSE [ok |-> TRUE,
              packages |-> [k \in 1..Len(entries) |->
                              PkgDict(Str(EntryParts(entries[k])[1]),
                                      Str(EntryParts(entries[k])[2]),
                                      Str(EntryParts(entries[k])[3]))]]

RequiredKeys == {"package_name", "ecosystem", "version"}

\* parse_packages_from_file: open, json.load, the required keys of every entry
parse_packages_from_file(file_path) ==
    LET f == FileSystem(file_path)
    IN  IF ~f.ok \/ \E k \in 1..Len(f.json) : ~(RequiredKeys \subseteq DOMAIN f.json[k])
        THEN [ok |-> FALSE, packages |-> <<>>]
        ELSE [ok |-> TRUE, packages |-> f.json]

---------------------------------------------------------------------------
(* The agent: queries and answers *)

ScanQuery(pkg) ==
    [kind |-> "scan", package_name |-> PyStr(pkg.package_name),
     version |-> PyStr(pkg.version), ecosystem |-> PyStr(pkg.ecosystem)]

DetailsQuery(vulnerability_id) ==
    [kind |-> "details", vulnerability_id |-> vulnerability_id]

AgentText(t) == [fmt |-> "agent", name |-> <<>>, version |-> <<>>, err |-> t]

VulnerabilityInfo(name, eco, ver, found, crit, high, med, recs, summary) ==
    [package_name |-> name, ecosystem |-> eco, version |-> ver,
     vulnerabilities_found |-> found,
     critical_vulnerabilities |-> crit,
     high_vulnerabilities |-> high,
     medium_vulnerabilities |-> med,
     recommendations |-> recs,
     summary |-> summary]

\* The structured answers result.output of the model for a query: no finding, a
\* finding of low severity (counted, in no list), a medium one, a critical and
\* a high one.
AgentOutputs(q) ==
    LET name == IF q.kind = "scan" THEN q.package_name ELSE <<>>
        eco == IF q.kind = "scan" THEN q.ecosystem ELSE <<>>
        ver == IF q.kind = "scan" THEN q.version ELSE <<>>
    IN  {VulnerabilityInfo(name, eco, ver, 0, <<>>, <<>>, <<>>, <<>>, AgentText("clean")),
         VulnerabilityInfo(name, eco, ver, 1, <<>>, <<>>, <<>>,
                           <<AgentText("upgrade")>>, AgentText("one low")),
         VulnerabilityInfo(name, eco, ver, 1, <<>>, <<>>, <<"GHSA-m">>,
                           <<AgentText("upgrade")>>, AgentText("one medium")),
         VulnerabilityInfo(name, eco, ver, 2, <<"GHSA-c">>, <<"GHSA-h">>, <<>>,
                           <<AgentText("upgrade")>>, AgentText("critical and high"))}

\* pydantic's validation of the three fields declared str
ValidInfoFields(pkg) ==
    IsStr(pkg.package_name) /\ IsStr(pkg.ecosystem) /\ IsStr(pkg.version)

\* the record built in scan_package's except branch
ErrorRecord(pkg, e) ==
    VulnerabilityInfo(pkg.package_name.val, pkg.ecosystem.val, pkg.version.val,
                      0, <<>>, <<>>, <<>>,
                      <<[fmt |-> "Error scanning package", name |-> <<>>,
                         version |-> <<>>, err |-> e]>>,
                      [fmt |-> "Failed to scan", name |-> PyStr(pkg.package_name),
                       version |-> PyStr(pkg.version), err |-> e])

\* the string get_vulnerability_details returns from its except branch
ErrorDetails(e) ==
    [fmt |-> "Error retrieving vulnerability details", name |-> <<>>,
     version |-> <<>>, err |-> e]

NewCall(kind, input) ==
    [kind |-> kind, input |-> input, failed |-> FALSE, outcome |-> "running",
     result |-> NoValue]

---------------------------------------------------------------------------
(* main(): the if/elif chain that starts the scan operation *)

\* entering scan_package / get_vulnerability_details for the first time
StartOp(kind, pkgs, callKind, input) ==
    /\ op' = [kind |-> kind, phase |-> "open", pkgs |-> pkgs,
              i |-> IF pkgs = <<>> THEN 0 ELSE 1,
              results |-> <<>>, pending |-> NoValue]
    /\ calls' = Append(calls, NewCall(callKind, input))
    /\ pc' = "scan"
    /\ UNCHANGED <<stderr, exitCode>>

\* scan_packages_batch(packages): the loop's first iteration, or no iteration
StartBatch(parsed) ==
    IF ~parsed.ok
    THEN /\ Die("parse_error")
         /\ UNCHANGED <<op, calls>>
    ELSE IF parsed.packages = <<>>
         THEN /\ op' = [IdleOp EXCEPT !.kind = "batch"]
              /\ pc' = "format"
              /\ UNCHANGED <<calls, stderr, exitCode>>
         ELSE StartOp("batch", parsed.packages, "scan", parsed.packages[1])

\* the branch of the chain, decided by the truthiness of one flag each
DispatchBranch(a) ==
    IF Truthy(a.vulnerability_id) THEN "details"
    ELSE IF Truthy(a.package) THEN "single"
    ELSE IF Truthy(a.packages) THEN "packages"
    ELSE IF Truthy(a.packages_file) THEN "packages_file"
    ELSE "none"

Dispatch ==
    /\ pc = "dispatch"
    /\ branch' = DispatchBranch(args)
    /\ CASE branch' = "details" ->
                StartOp("details", <<>>, "details", args.vulnerability_id)
         [] branch' = "single" ->
                StartOp("single",
                        <<PkgDict(args.package, args.ecosystem, args.version)>>,
                        "scan",
                        PkgDict(args.package, args.ecosystem, args.version))
         [] branch' = "packages" ->
                StartBatch(parse_packages_from_args(args.packages.val))
         [] branch' = "packages_file" ->
                StartBatch(parse_packages_from_file(args.packages_file.val))
         [] OTHER ->
                \* output is never bound: UnboundLocalError, caught by main()
                /\ Die("exception")
                /\ UNCHANGED <<op, calls>>
    /\ UNCHANGED <<args, env, stdout, agent, session, queries, nOpen, nOpened, nClose>>

---------------------------------------------------------------------------
(* scan_package, scan_packages_batch, get_vulnerability_details *)

CurrentCall == calls[Len(calls)]

EndCall(failed, outcome, result) ==
    [calls EXCEPT ![Len(calls)] =
        [@ EXCEPT !.failed = failed, !.outcome = outcome, !.result = result]]

\* The running call returns result.  In a batch the loop appends it and calls
\* scan_package for the next package; otherwise main() goes on to the output.
ReturnFrom(failed, result) ==
    /\ IF op.kind = "batch" /\ op.i < Len(op.pkgs)
       THEN /\ op' = [op EXCEPT !.results = Append(@, result), !.i = @ + 1,
                                !.phase = "open", !.pending = NoValue]
            /\ calls' = Append(EndCall(failed, "returned", result),
                               NewCall("scan", op.pkgs[op.i + 1]))
            /\ pc' = pc
       ELSE /\ op' = [op EXCEPT !.results = Append(@, result),
                                !.phase = "idle", !.pending = NoValue]
            /\ calls' = EndCall(failed, "returned", result)
            /\ pc' = "format"
    /\ UNCHANGED <<stderr, exitCode>>

\* An exception leaves the running call, and the batch loop if there is one,
\* and reaches main()'s except Exception.
RaiseFrom ==
    /\ op' = [op EXCEPT !.phase = "idle", !.pending = NoValue]
    /\ calls' = EndCall(TRUE, "raised", NoValue)
    /\ Die("exception")

\* The except Exception branch of the running call, entered with str(e) = e.
\* scan_package builds a VulnerabilityInfo, which validates its fields;
\* get_vulnerability_details builds a string.
Except(e) ==
    IF op.kind = "details"
    THEN ReturnFrom(TRUE, ErrorDetails(e))
    ELSE IF ValidInfoFields(op.pkgs[op.i])
         THEN ReturnFrom(TRUE, ErrorRecord(op.pkgs[op.i], e))
         ELSE RaiseFrom

\* the query of the running call
CurrentQuery ==
    IF op.kind = "details" THEN DetailsQuery(CurrentCall.input.val)
    ELSE ScanQuery(op.pkgs[op.i])

\* async with self.agent.run_mcp_servers(): entering the block
OpenSession ==
    /\ pc = "scan" /\ op.phase = "open"
    /\ nOpen' = nOpen + 1
    /\ \E ok \in BOOLEAN :
         IF ok
         THEN /\ session' = TRUE
              /\ nOpened' = nOpened + 1
              /\ op' = [op EXCEPT !.phase = "run"]
              /\ UNCHANGED <<calls, pc, stderr, exitCode>>
         ELSE /\ Except("open failed")
              /\ UNCHANGED <<session, nOpened>>
    /\ UNCHANGED <<args, env, stdout, agent, branch, queries, nClose>>

\* result = await self.agent.run(query): an answer or an exception
RunQuery ==
    /\ pc = "scan" /\ op.phase = "run"
    /\ queries' = Append(queries, [query |-> CurrentQuery, in_session |-> session])
    /\ \E ok \in BOOLEAN :
         IF ok
         THEN \E out \in AgentOutputs(CurrentQuery) :
                op' = [op EXCEPT !.phase = "close",
                                 !.pending = [raised |-> FALSE, output |-> out]]
         ELSE op' = [op EXCEPT !.phase = "close",
                               !.pending = [raised |-> TRUE, output |-> NoValue]]
    /\ UNCHANGED <<args, env, pc, exitCode, stderr, stdout, agent, branch, session,
                   calls, nOpen, nOpened, nClose>>

\* what the call returns from inside the block
ReturnValue(output) == IF op.kind = "details" THEN output.summary ELSE output

\* the mutant: a block that is not left when the query raised (no finally)
CloseSessionLeaky ==
    /\ pc = "scan" /\ op.phase = "close"
    /\ IF op.pending.raised
       THEN /\ Except("run failed")
            /\ UNCHANGED <<session, nClose>>
       ELSE /\ session' = FALSE
            /\ nClose' = nClose + 1
            /\ \E ok \in BOOLEAN :
                 IF ~ok THEN Except("close failed")
                 ELSE ReturnFrom(FALSE, ReturnValue(op.pending.output))
    /\ UNCHANGED <<args, env, stdout, agent, branch, queries, nOpen, nOpened>>

\* Leaving the async with block, with the return value or with the exception of
\* run pending; leaving may raise as well.  Then the return, or the except branch.
CloseSession ==
    /\ pc = "scan" /\ op.phase = "close"
    /\ session' = FALSE
    /\ nClose' = nClose + 1
    /\ \E ok \in BOOLEAN :
         IF ~ok THEN Except("close failed")
         ELSE IF op.pending.raised THEN Except("run failed")
         ELSE ReturnFrom(FALSE, ReturnValue(op.pending.output))
    /\ UNCHANGED <<args, env, stdout, agent, branch, queries, nOpen, nOpened>>

---------------------------------------------------------------------------
(* main(): output and exit status *)

\* The value main() binds to output, with isinstance(output, list).
Output ==
    CASE branch = "details" ->
            [is_list |-> FALSE,
             value |-> [vulnerability_id |-> args.vulnerability_id.val,
                        details |-> op.results[1]]]
      [] branch = "single" -> [is_list |-> FALSE, value |-> op.results[1]]
      [] OTHER -> [is_list |-> TRUE, value |-> op.results]

\* f"{severity}_vulnerabilities"
SeverityKey(severity) ==
    CASE severity = "low" -> "low_vulnerabilities"
      [] severity = "medium" -> "medium_vulnerabilities"
      [] severity = "high" -> "high_vulnerabilities"
      [] severity = "critical" -> "critical_vulnerabilities"

\* severity_levels.index(threshold), counted from 1
IndexOf(severity_levels, x) ==
    CHOOSE i \in 1..Len(severity_levels) : severity_levels[i] = x

check_single_result_threshold(result, threshold_index, severity_levels) ==
    \E i \in threshold_index..Len(severity_levels) :
        /\ SeverityKey(severity_levels[i]) \in DOMAIN result
        /\ result[SeverityKey(severity_levels[i])] # <<>>

has_vulnerabilities_above_threshold(output, threshold) ==
    LET severity_levels == SeverityLevels
        threshold_index == IndexOf(severity_levels, threshold)
    IN  IF output.is_list
        THEN \E k \in 1..Len(output.value) :
                check_single_result_threshold(output.value[k], threshold_index,
                                              severity_levels)
        ELSE check_single_result_threshold(output.value, threshold_index,
                                           severity_levels)

Line(kind, data) == [kind |-> kind, data |-> data]

\* the lines of the text report of one result; threshold is not read
format_single_result(result, threshold) ==
    <<Line("Package", <<result.package_name, result.ecosystem, result.version>>),
      Line("Vulnerabilities found", result.vulnerabilities_found)>>
    \o (IF result.vulnerabilities_found > 0
        THEN (IF result.critical_vulnerabilities # <<>>
              THEN <<Line("Critical", result.critical_vulnerabilities)>> ELSE <<>>)
             \o (IF result.high_vulnerabilities # <<>>
                 THEN <<Line("High", result.high_vulnerabilities)>> ELSE <<>>)
             \o (IF result.medium_vulnerabilities # <<>>
                 THEN <<Line("Medium", result.medium_vulnerabilities)>> ELSE <<>>)
             \o (IF result.recommendations # <<>>
                 THEN <<Line("Recommendations", result.recommendations)>> ELSE <<>>)
        ELSE <<>>)
    \o <<Line("Summary", result.summary)>>

RECURSIVE BatchItems(_, _, _)
BatchItems(results, threshold, i) ==
    IF i > Len(results) THEN <<>>
    ELSE format_single_result(results[i], threshold)
         \o (IF i < Len(results) THEN <<Line("separator", i)>> ELSE <<>>)
         \o BatchItems(results, threshold, i + 1)

format_batch_results(results, threshold) ==
    <<Line("Vulnerability Scan Results", <<>>),
      Line("Summary count",
           <<Cardinality({k \in 1..Len(results) : results[k].vulnerabilities_found > 0}),
             Len(results)>>)>>
    \o BatchItems(results, threshold, 1)

\* output_str
Render(output) ==
    IF args.output_format = "json"
    THEN [format |-> "json", value |-> output.value]
    ELSE IF output.is_list
         THEN [format |-> "text",
               lines |-> format_batch_results(output.value, args.severity_threshold)]
         ELSE IF "vulnerability_id" \in DOMAIN output.value
              THEN [format |-> "text",
                    lines |-> <<Line("Vulnerability", output.value.vulnerability_id),
                                Line("details", output.value.details)>>]
              ELSE [format |-> "text",
                    lines |-> format_single_result(output.value, args.severity_threshold)]

\* Format and print the output, then the threshold check: exit status 1 when
\* --fail-on-vulnerabilities is set and the check finds something, else the
\* coroutine returns and the process ends with status 0.
Finish ==
    /\ pc = "format"
    /\ stdout' = Render(Output)
    /\ IF /\ args.fail_on_vulnerabilities
          /\ has_vulnerabilities_above_threshold(Output, args.severity_threshold)
       THEN Die("threshold")
       ELSE /\ pc' = "done"
            /\ exitCode' = 0
            /\ UNCHANGED stderr
    /\ UNCHANGED <<args, env, agent, branch, op, session, queries, calls,
                   nOpen, nOpened, nClose>>

Next ==
    \/ Validate
    \/ Construct
    \/ Dispatch
    \/ OpenSession
    \/ RunQuery
    \/ CloseSession
    \/ Finish

Spec == Init /\ [][Next]_vars

---------------------------------------------------------------------------
(* The server URL alone: OSVAgent.__init__ over every URL of up to MaxUrlLen *)
(* characters, in a run that asks for the details of a vulnerability.       *)

UrlArgs(url) ==
    [package |-> None, ecosystem |-> None, version |-> None, packages |-> None,
     packages_file |-> None, vulnerability_id |-> Str(<<"V">>),
     osv_server |-> url, anthropic_api_key |-> None,
     output_format |-> "text", fail_on_vulnerabilities |-> FALSE,
     severity_threshold |-> "medium"]

InitURL ==
    /\ args \in {UrlArgs(url) : url \in SeqsUpTo(UrlAlphabet, MaxUrlLen)}
    /\ env \in {None, Str(<<"k">>)}
    /\ pc = "construct"
    /\ exitCode = NoExit
    /\ stderr = <<>>
    /\ stdout = NoOutput
    /\ agent = NoAgent
    /\ branch = "none"
    /\ op = IdleOp
    /\ session = FALSE
    /\ queries = <<>>
    /\ calls = <<>>
    /\ nOpen = 0
    /\ nOpened = 0
    /\ nClose = 0

NextURL == Construct

SpecURL == InitURL /\ [][NextURL]_vars

---------------------------------------------------------------------------
(* What the claims speak of *)

\* a flag given with a value (a flag left out, or given as "", is not given)
Given(o) == o.given /\ o.val # <<>>

\* the scan modes of the command line that are given
GivenModes ==
    {m \in {"single", "packages", "packages_file", "details"} :
        CASE m = "single" ->
                Given(args.package) /\ Given(args.ecosystem) /\ Given(args.version)
          [] m = "packages" -> Given(args.packages)
          [] m = "packages_file" -> Given(args.packages_file)
          [] m = "details" -> Given(args.vulnerability_id)}

\* main() has ended
Ended == pc \in {"done", "exit"}

\* the calls of scan_package so far
ScanCalls == {k \in 1..Len(calls) : calls[k].kind = "scan"}

FinishedCalls == {k \in 1..Len(calls) : calls[k].outcome # "running"}

\* no operation is between entering and leaving its session block
Quiescent == op.phase \in {"idle", "open"}

SeverityIndex(severity) == IndexOf(SeverityLevels, severity)

\* The vulnerabilities of a result at one severity: the three lists, and at
\* low the findings that are counted in vulnerabilities_found and are in no list.
CountAt(result, severity) ==
    CASE severity = "critical" -> Len(result.critical_vulnerabilities)
      [] severity = "high" -> Len(result.high_vulnerabilities)
      [] severity = "medium" -> Len(result.medium_vulnerabilities)
      [] severity = "low" ->
            LET listed == Len(result.critical_vulnerabilities)
                          + Len(result.high_vulnerabilities)
                          + Len(result.medium_vulnerabilities)
            IN  IF result.vulnerabilities_found > listed
                THEN result.vulnerabilities_found - listed ELSE 0

ContainsAtOrAbove(result, threshold) ==
    \E i \in SeverityIndex(threshold)..4 : CountAt(result, SeverityLevels[i]) > 0

\* the scan results of the run (a details lookup has none)
ScanResults == IF branch = "details" THEN <<>> ELSE op.results

Signal(threshold) ==
    \E k \in 1..Len(ScanResults) : ContainsAtOrAbove(ScanResults[k], threshold)

RECURSIVE DoubleSlashes(_)
DoubleSlashes(s) ==
    IF Len(s) < 2 THEN 0
    ELSE BoolInt(s[1] = "/" /\ s[2] = "/") + DoubleSlashes(Tail(s))

---------------------------------------------------------------------------
(* Claims *)

\* C1: once the arguments are validated, a command line that gives no scan mode
\* or more than one has ended the run with exit status 1 and the error message,
\* with no OSVAgent constructed, no session entered and no query issued; a
\* command line that gives exactly one mode is not rejected and the run goes on
\* to construct the agent.
C1_ExactlyOneMode ==
    pc # "start" =>
        IF Cardinality(GivenModes) # 1
        THEN /\ pc = "exit" /\ exitCode = 1 /\ stderr = <<"mode_error">>
             /\ ~agent.constructed /\ calls = <<>> /\ queries = <<>> /\ nOpen = 0
        ELSE /\ "mode_error" \notin {stderr[k] : k \in 1..Len(stderr)}
             /\ pc = "exit" => stderr # <<>> /\ stderr[1] # "mode_error"

\* a run rejected for giving two modes
C1_Witness ==
    /\ pc = "exit" /\ stderr = <<"mode_error">>
    /\ Cardinality(GivenModes) = 2

\* C2: once the output is printed, has_vulnerabilities_above_threshold is true
\* iff some scan result holds a vulnerability at or above the threshold; with
\* --fail-on-vulnerabilities the exit status is 1 exactly when it is, and 0
\* without the flag.
C2_PassFailSignal ==
    (Ended /\ stdout # NoOutput) =>
        /\ has_vulnerabilities_above_threshold(Output, args.severity_threshold)
              <=> Signal(args.severity_threshold)
        /\ args.fail_on_vulnerabilities =>
              (exitCode = 1 <=> Signal(args.severity_threshold))
        /\ ~args.fail_on_vulnerabilities => exitCode = 0

\* C3: no call of scan_package or get_vulnerability_details ends by raising; a
\* failed scan_package returned the error record of its inputs (no finding,
\* empty lists, the error text in recommendations and summary) and a failed
\* get_vulnerability_details returned the error string.
C3_NeverPropagates ==
    \A k \in 1..Len(calls) :
        /\ calls[k].outcome # "raised"
        /\ (calls[k].failed /\ calls[k].kind = "scan") =>
              /\ calls[k].outcome = "returned"
              /\ Str(calls[k].result.package_name) = calls[k].input.package_name
              /\ Str(calls[k].result.ecosystem) = calls[k].input.ecosystem
              /\ Str(calls[k].result.version) = calls[k].input.version
              /\ calls[k].result.vulnerabilities_found = 0
              /\ calls[k].result.critical_vulnerabilities = <<>>
              /\ calls[k].result.high_vulnerabilities = <<>>
              /\ calls[k].result.medium_vulnerabilities = <<>>
              /\ Len(calls[k].result.recommendations) = 1
              /\ calls[k].result.recommendations[1].fmt = "Error scanning package"
              /\ calls[k].result.summary.fmt = "Failed to scan"
        /\ (calls[k].failed /\ calls[k].kind = "details") =>
              /\ calls[k].outcome = "returned"
              /\ calls[k].result.fmt = "Error retrieving vulnerability details"

\* C4: a batch scans its packages one after the other, in order: at most the
\* last call is running, call i is the scan of package i, and when the batch
\* has ended there are N results, result i the one call i returned, failed or
\* not.
C4_BatchSequential ==
    op.kind = "batch" =>
        /\ \A k \in 1..Len(calls) :
              /\ calls[k].input = op.pkgs[k]
              /\ calls[k].outcome = "running" => k = Len(calls)
              /\ calls[k].outcome # "running" => k <= Len(op.results) + 1
        /\ op.phase = "idle" =>
              /\ Len(op.results) = Len(op.pkgs)
              /\ Len(calls) = Len(op.pkgs)
              /\ \A k \in 1..Len(calls) :
                    /\ calls[k].outcome = "returned"
                    /\ op.results[k] = calls[k].result

C6_TransportSelection ==
    agent.constructed =>
        LET u == args.osv_server
        IN  /\ EndsWith(u, <<"/", "s", "s", "e">>) =>
                  agent.transport = "sse" /\ agent.url = u
            /\ (EndsWith(u, <<"/", "m", "c", "p">>)
                  \/ EndsWith(u, <<"/", "m", "c", "p", "/">>)) =>
                  /\ agent.transport = "streamable_http"
                  /\ EndsWith(agent.url, <<"p", "/">>)
            /\ (~EndsWith(u, <<"/", "s", "s", "e">>)
                  /\ ~EndsWith(u, <<"/", "m", "c", "p">>)
                  /\ ~EndsWith(u, <<"/", "m", "c", "p", "/">>)) =>
                  agent.transport = "sse" /\ agent.url = u \o <<"/", "s", "s", "e">>
            /\ DoubleSlashes(agent.url) <= DoubleSlashes(u)

\* C7: the text report of a scan lists the vulnerabilities of a severity only
\* if that severity is at or above --severity-threshold.
C7_ThresholdFiltersReport ==
    (stdout.format = "text" /\ branch # "details") =>
        \A k \in 1..Len(stdout.lines) :
            /\ stdout.lines[k].kind = "Critical" =>
                  SeverityIndex("critical") >= SeverityIndex(args.severity_threshold)
            /\ stdout.lines[k].kind = "High" =>
                  SeverityIndex("high") >= SeverityIndex(args.severity_threshold)
            /\ stdout.lines[k].kind = "Medium" =>
                  SeverityIndex("medium") >= SeverityIndex(args.severity_threshold)

\* C8: the branch main() takes is the one scan mode that is given, and a single
\* package scan is called with package, ecosystem and version all given.
C8_DispatchMatchesMode ==
    branch # "none" =>
        /\ GivenModes = {branch}
        /\ branch = "single" =>
              \A k \in ScanCalls :
                  /\ Given(calls[k].input.package_name)
                  /\ Given(calls[k].input.ecosystem)
                  /\ Given(calls[k].input.version)

\* C9: a failed scan counts as a pass: a record that a failed scan_package
\* returned trips the threshold check at no threshold; a run whose scans all
\* failed, and a details lookup, end with exit status 0; and the threshold
\* check ends a run with status 1 only when the agent returned a record.
C9_FailedScanPasses ==
    /\ \A k \in ScanCalls :
          (calls[k].failed /\ calls[k].outcome = "returned") =>
              \A i \in 1..4 :
                  ~has_vulnerabilities_above_threshold(
                      [is_list |-> FALSE, value |-> calls[k].result], SeverityLevels[i])
    /\ (Ended /\ calls # <<>> /\ \A k \in 1..Len(calls) : calls[k].failed) =>
          exitCode = 0
    /\ (Ended /\ branch = "details") => exitCode = 0
    /\ (Len(stderr) > 0 /\ stderr[Len(stderr)] = "threshold") =>
          \E k \in ScanCalls : ~calls[k].failed /\ calls[k].outcome = "returned"

====
